---- MODULE Spec2Model ----
(***************************************************************************)
(* Model of process_survey.py: the survey pre-aggregation pipeline         *)
(* (load_and_filter, get_country_info, build_cells, build_json, the JSON   *)
(* write and embed_in_html) as run by main().                              *)
(*                                                                         *)
(* Representation.  A table is a sequence of runs [row |-> r, k |-> n]: n  *)
(* consecutive identical CSV records r (run-length encoding of the data    *)
(* frame, in file order).  A text cell that the code searches with         *)
(* str.contains is a sequence of text pieces whose concatenation is the    *)
(* cell's text; the other cells are strings.  The string "NaN" is the      *)
(* missing value, as pd.read_csv reads it.  A document is a sequence of    *)
(* text pieces.  Means are held in tenths (333 is 33.3).                   *)
(***************************************************************************)
EXTENDS Integers, Sequences, FiniteSets, TLC

VARIABLES csv, args, pc, data, countries, cells, output, json_str,
          html_file, out_file, out_written, exit_code

vars == <<csv, args, pc, data, countries, cells, output, json_str,
          html_file, out_file, out_written, exit_code>>

(***************************************************************************)
(* Bounds of the explored inputs                                           *)
(***************************************************************************)
MaxGroups == 2
MaxDoc == 3

(***************************************************************************)
(* Program constants                                                       *)
(***************************************************************************)
ATTENTION_ANSWER == "7"
\* dates are written yyyymmdd; "2026-01-15"
DATE_CUTOFF == 20260115
MIN_COUNTRY_N == 100
\* the literal 5 of add_cells
MIN_CELL_N == 5

NaN == "NaN"
\* a StartDate text that pd.to_datetime cannot parse
BadDate == -1
\* the missing timestamp
NaT == 0

AGE_GROUPS ==
  << "18-24 years old", "25-34 years old", "35-44 years old",
     "45-54 years old", "55-64 years old", "65+ years old" >>

AGE_SHORT ==
  ( "18-24 years old" :> "18-24" @@ "25-34 years old" :> "25-34" @@
    "35-44 years old" :> "35-44" @@ "45-54 years old" :> "45-54" @@
    "55-64 years old" :> "55-64" @@ "65+ years old" :> "65+" )

EDU_GROUPS ==
  << << "Graduate or professional degree (MA, MS, MBA, PhD, Law Degree, Medical Degree etc)",
        "Graduate degree" >>,
     << "University - Bachelors Degree", "Bachelor's degree" >>,
     << "Some University but no degree", "Some university" >>,
     << "Vocational or Similar", "Vocational" >>,
     << "Secondary", "Secondary" >> >>

EDU_MERGE ==
  ( "Some Secondary" :> "Less than secondary" @@
    "Primary" :> "Less than secondary" @@
    "Less than Primary" :> "Less than secondary" )

EDU_SHORT_ORDER ==
  [i \in 1..(Len(EDU_GROUPS) + 1) |->
     IF i <= Len(EDU_GROUPS) THEN EDU_GROUPS[i][2] ELSE "Less than secondary"]

COUNTRY_SHORT ==
  ( "United States of America" :> "United States" @@
    "United Kingdom of Great Britain and Northern Ireland" :> "United Kingdom" @@
    "United Arab Emirates" :> "UAE" @@
    "Congo, Democratic Republic of the" :> "DR Congo" @@
    "Iran (Islamic Republic of)" :> "Iran" @@
    "Bolivia (Plurinational State of)" :> "Bolivia" @@
    "Venezuela (Bolivarian Republic of)" :> "Venezuela" @@
    "Tanzania, United Republic of" :> "Tanzania" @@
    "Korea, Republic of" :> "South Korea" @@
    "Lao People's Democratic Republic" :> "Laos" @@
    "Viet Nam" :> "Vietnam" @@
    "Russian Federation" :> "Russia" @@
    "Moldova, Republic of" :> "Moldova" @@
    "Syrian Arab Republic" :> "Syria" @@
    "Micronesia (Federated States of)" :> "Micronesia" )

Q31_OPTIONS ==
  << "Climate change is happening", "Climate change is not happening", "Not sure" >>

Q32_OPTIONS ==
  << "Caused by human activities",
     "Caused by natural changes in the environment",
     "Caused by a mix of human activities and natural changes in the environment",
     "I don't know" >>

Q41_OPTIONS ==
  << "Strongly agree", "Somewhat agree", "Neither agree nor disagree",
     "Somewhat disagree", "Strongly disagree" >>

Q77_FULL_OPTIONS ==
  << "Given to poor country governments without restrictions",
     "Given directly to people in poor countries",
     "Put in an insurance fund for disasters (like droughts and hurricanes)",
     "Given to poor country governments and communities for climate resilience investments (like seawalls and air conditioning)",
     "Put in a fund for climate resilience investments that people can apply to, controlled by rich countries" >>

\* the columns Q7.8_1, Q7.8_7, Q7.8_8, Q7.8_9, Q7.8_10, by position in the row's Q7_8
Q78_COLS == << 1, 2, 3, 4, 5 >>

(***************************************************************************)
(* Series helpers                                                          *)
(***************************************************************************)
RECURSIVE SumK(_)
\* len(frame): the number of records of a run-length table
SumK(t) == IF t = << >> THEN 0 ELSE t[1].k + SumK(Tail(t))

\* frame[mask]: the records whose row satisfies P, in order
Where(t, P(_)) == SelectSeq(t, LAMBDA g : P(g.row))

\* int(mask.sum()): how many records satisfy P
CountWhere(t, P(_)) == SumK(Where(t, P))

\* the text of a searched cell is missing
IsNaText(txt) == txt = << NaN >>

\* Series.str.contains(pat, na=False, regex=False) on one cell
StrContains(txt, pat) ==
  /\ ~IsNaText(txt)
  /\ \E i \in 1..Len(txt) : txt[i] = pat

\* series == opt on one searched cell
TextEq(txt, opt) == ~IsNaText(txt) /\ txt = << opt >>

RECURSIVE SumSeq(_)
SumSeq(s) == IF s = << >> THEN 0 ELSE s[1] + SumSeq(Tail(s))

(***************************************************************************)
(* load_and_filter                                                         *)
(***************************************************************************)
\* variant: df.iloc[2:], the label row and the import-id row skipped by position
SkipLabelRow_two(t) ==
  IF t = << >> THEN << >>
  ELSE IF t[1].k = 1
    THEN IF Len(t) = 1 THEN << >>
         ELSE IF t[2].k = 1 THEN Tail(Tail(t))
         ELSE << [t[2] EXCEPT !.k = @ - 1] >> \o Tail(Tail(t))
  ELSE IF t[1].k = 2 THEN Tail(t)
  ELSE << [t[1] EXCEPT !.k = @ - 2] >> \o Tail(t)

\* df.iloc[1:]: every record but the first one, whatever it holds
SkipLabelRow(t) ==
  IF t = << >> THEN << >>
  ELSE IF t[1].k = 1 THEN Tail(t)
  ELSE << [t[1] EXCEPT !.k = @ - 1] >> \o Tail(t)

\* data[~data["Q3.1"].str.contains("ImportId", na=False)]
DropImportId(t) == Where(t, LAMBDA r : ~StrContains(r.Q3_1, "ImportId"))

\* pd.to_datetime raises on a text that is no timestamp
DateParseFails(t) == \E i \in 1..Len(t) : t[i].row.StartDate = BadDate

\* data[data["StartDate"] >= DATE_CUTOFF]; a comparison with NaT is False
DateFilter(t) == Where(t, LAMBDA r : r.StartDate # NaT /\ r.StartDate >= DATE_CUTOFF)

\* data[data["Attention Check"] == ATTENTION_ANSWER]
AttentionFilter(t) == Where(t, LAMBDA r : r.Attention = ATTENTION_ANSWER)

\* the run dies in load_and_filter with an uncaught exception
LoadRaises(t) == DateParseFails(DropImportId(SkipLabelRow(t)))

load_and_filter(t) == AttentionFilter(DateFilter(DropImportId(SkipLabelRow(t))))

(***************************************************************************)
(* get_country_info                                                        *)
(***************************************************************************)
\* the index of data["Country"].value_counts(): the values present, NaN left out
CountryNames(d) == { d[i].row.Country : i \in 1..Len(d) } \ { NaN }

\* the count value_counts() gives for one country value
CountryCount(d, c) == CountWhere(d, LAMBDA r : r.Country = c)

\* value_counts() sorts by descending count; the order among equal counts is
\* not specified by the (unstable) sort, so every such order is possible
ValueCountsOrders(d) ==
  LET names == CountryNames(d)
      N == Cardinality(names)
  IN { s \in [1..N -> names] :
         /\ \A i, j \in 1..N : i # j => s[i] # s[j]
         /\ \A i \in 1..N : i < N => CountryCount(d, s[i]) >= CountryCount(d, s[i + 1]) }

\* COUNTRY_SHORT.get(country_name, country_name)
ShortName(c) == IF c \in DOMAIN COUNTRY_SHORT THEN COUNTRY_SHORT[c] ELSE c

\* the country-as-a-whole classification: any row flagged, OECD first
CountryGroup(d, c) ==
  IF \E i \in 1..Len(d) : d[i].row.Country = c /\ d[i].row.is_oecd = "True" THEN "oecd"
  ELSE IF \E i \in 1..Len(d) : d[i].row.Country = c /\ d[i].row.is_lmic = "True" THEN "lmic"
  ELSE "other"

CountryInfo(d, c) ==
  [id |-> ShortName(c), name |-> ShortName(c), full_name |-> c,
   group |-> CountryGroup(d, c), n |-> CountryCount(d, c)]

\* variant: `if n > MIN_COUNTRY_N`
get_country_info_strict(d, order) ==
  LET kept == SelectSeq(order, LAMBDA c : CountryCount(d, c) > MIN_COUNTRY_N)
  IN [i \in 1..Len(kept) |-> CountryInfo(d, kept[i])]

\* the loop of get_country_info over counts.items() taken in the order `order`
get_country_info(d, order) ==
  LET kept == SelectSeq(order, LAMBDA c : CountryCount(d, c) >= MIN_COUNTRY_N)
  IN [i \in 1..Len(kept) |-> CountryInfo(d, kept[i])]

(***************************************************************************)
(* Counting and means                                                      *)
(***************************************************************************)
count_yes_no(t, col) ==
  << CountWhere(t, LAMBDA r : TextEq(r[col], "Yes")),
     CountWhere(t, LAMBDA r : TextEq(r[col], "No")) >>

count_options(t, col, options) ==
  [i \in 1..Len(options) |-> CountWhere(t, LAMBDA r : TextEq(r[col], options[i]))]

\* variant: str.contains(..., na=True), a missing answer counted for every option
count_q77_na(t) ==
  [i \in 1..Len(Q77_FULL_OPTIONS) |->
     CountWhere(t, LAMBDA r : IsNaText(r.Q7_7) \/ StrContains(r.Q7_7, Q77_FULL_OPTIONS[i]))]

count_q77(t) ==
  [i \in 1..Len(Q77_FULL_OPTIONS) |->
     CountWhere(t, LAMBDA r : StrContains(r.Q7_7, Q77_FULL_OPTIONS[i]))]

\* the decimal texts of the explored allocation fields and their values
DecimalLiterals == ( "0" :> 0 @@ "15" :> 15 @@ "50" :> 50 @@ "100" :> 100 @@ "150" :> 150 )

\* pd.to_numeric(x, errors="coerce").fillna(0) on one cell
ToNumericFill0(x) == IF x \in DOMAIN DecimalLiterals THEN DecimalLiterals[x] ELSE 0

RECURSIVE SumCol(_, _)
\* values.sum() of one allocation column
SumCol(t, col) ==
  IF t = << >> THEN 0
  ELSE t[1].k * ToNumericFill0(t[1].row.Q7_8[col]) + SumCol(Tail(t), col)

RECURSIVE BitLen(_)
BitLen(i) == IF i = 0 THEN 0 ELSE 1 + BitLen(i \div 2)

RECURSIVE FloatErr(_, _, _, _)
\* The sign of double(a/b) - a/b, by long division in base 2: r/b is the part
\* of the quotient not yet written, sig the number of significant bits
\* written, last the last bit written; a double keeps 53 bits, the rest is
\* rounded to nearest, ties to even.
FloatErr(r, b, sig, last) ==
  IF r = 0 THEN 0
  ELSE IF sig = 53
    THEN IF 2 * r < b THEN -1
         ELSE IF 2 * r > b THEN 1
         ELSE IF last = 1 THEN 1 ELSE -1
  ELSE LET bit == IF 2 * r >= b THEN 1 ELSE 0
       IN FloatErr(2 * r - bit * b, b,
                   IF sig > 0 \/ bit = 1 THEN sig + 1 ELSE 0, bit)

\* round(float(S / n), 1) in tenths, for S >= 0 and n > 0: round() rounds the
\* exact value of the double, half to even
Round1(S, n) ==
  LET q == (10 * S) \div n
      r == (10 * S) % n
  IN IF 2 * r < n THEN q
     ELSE IF 2 * r > n THEN q + 1
     ELSE LET e == FloatErr(S % n, n, BitLen(S \div n), (S \div n) % 2)
          IN IF e < 0 THEN q
             ELSE IF e > 0 THEN q + 1
             ELSE IF q % 2 = 0 THEN q ELSE q + 1

\* subset["Q7.7"].notna() & (subset["Q7.7"] != "")
HasQ77(r) == ~IsNaText(r.Q7_7) /\ r.Q7_7 # << >>

\* variant: the means taken over the whole subset, answered Q7.7 or not
mean_q78_all(t) ==
  IF SumK(t) = 0 THEN << [i \in 1..Len(Q78_COLS) |-> 0], 0 >>
  ELSE << [i \in 1..Len(Q78_COLS) |-> Round1(SumCol(t, Q78_COLS[i]), SumK(t))], SumK(t) >>

\* mean_q78: << means in tenths, n_q78 >>
mean_q78(t) ==
  LET has_q77 == Where(t, HasQ77)
      m == SumK(has_q77)
  IN IF m = 0 THEN << [i \in 1..Len(Q78_COLS) |-> 0], 0 >>
     ELSE << [i \in 1..Len(Q78_COLS) |-> Round1(SumCol(has_q77, Q78_COLS[i]), m)], m >>

\* the value aggregate_cell returns for an empty subset
None == [none |-> TRUE]

aggregate_cell(t) ==
  IF SumK(t) = 0 THEN None
  ELSE LET q76 == count_yes_no(t, "Q7_6")
           q78 == mean_q78(t)
       IN [n |-> SumK(t),
           q71 |-> count_yes_no(t, "Q7_1"),
           q31 |-> count_options(t, "Q3_1", Q31_OPTIONS),
           q32 |-> count_options(t, "Q3_2", Q32_OPTIONS),
           q41 |-> count_options(t, "Q4_1", Q41_OPTIONS),
           q72 |-> count_yes_no(t, "Q7_2"),
           q73 |-> count_yes_no(t, "Q7_3"),
           q74 |-> count_yes_no(t, "Q7_4"),
           q75 |-> count_yes_no(t, "Q7_5"),
           q76 |-> q76,
           n_q76 |-> q76[1] + q76[2],
           q77 |-> count_q77(t),
           n_q77 |-> CountWhere(t, LAMBDA r : ~IsNaText(r.Q7_7))
                       - CountWhere(t, LAMBDA r : r.Q7_7 = << >>),
           q78 |-> q78[1],
           n_q78 |-> q78[2]]

(***************************************************************************)
(* build_cells                                                             *)
(***************************************************************************)
\* {full: short for full, short in EDU_GROUPS} updated with EDU_MERGE
edu_map ==
  [full \in { EDU_GROUPS[i][1] : i \in 1..Len(EDU_GROUPS) } \cup DOMAIN EDU_MERGE |->
     IF full \in DOMAIN EDU_MERGE THEN EDU_MERGE[full]
     ELSE EDU_GROUPS[CHOOSE i \in 1..Len(EDU_GROUPS) : EDU_GROUPS[i][1] = full][2]]

\* the derived column data["Education"].map(edu_map).fillna("")
edu_short(r) == IF r.Education \in DOMAIN edu_map THEN edu_map[r.Education] ELSE ""

\* f"{key_prefix}|{age}|{edu}"
CellKey(key_prefix, age, edu) == key_prefix \o "|" \o age \o "|" \o edu

\* the breakdowns of add_cells in the order it visits them; "All" is no filter
Breakdowns ==
  << << "All", "All" >> >>
  \o [i \in 1..Len(AGE_GROUPS) |-> << AGE_GROUPS[i], "All" >>]
  \o [i \in 1..Len(EDU_SHORT_ORDER) |-> << "All", EDU_SHORT_ORDER[i] >>]
  \o [i \in 1..(Len(AGE_GROUPS) * Len(EDU_SHORT_ORDER)) |->
        << AGE_GROUPS[((i - 1) \div Len(EDU_SHORT_ORDER)) + 1],
           EDU_SHORT_ORDER[((i - 1) % Len(EDU_SHORT_ORDER)) + 1] >>]

\* subset[subset["Age"] == age_full][...["edu_short"] == edu_short]
BreakdownSubset(subset, b) ==
  Where(subset, LAMBDA r : /\ (b[1] # "All" => r.Age = b[1])
                           /\ (b[2] # "All" => edu_short(r) = b[2]))

\* the key a breakdown is stored under
BreakdownKey(key_prefix, b) ==
  CellKey(key_prefix, IF b[1] = "All" THEN "All" ELSE AGE_SHORT[b[1]], b[2])

\* variant: the threshold applied to the overall breakdown too
Stored_all(b, cell) == cell # None /\ cell.n >= MIN_CELL_N

\* the test that guards the store: `if cell` for the overall breakdown,
\* `if cell and cell["n"] >= 5` for the others
Stored(b, cell) ==
  IF b = << "All", "All" >> THEN cell # None
  ELSE cell # None /\ cell.n >= MIN_CELL_N

\* add_cells: the stores of one geography laid over the cells built so far; a
\* key stored twice keeps the later store
add_cells(cs, key_prefix, subset) ==
  LET cell(i) == aggregate_cell(BreakdownSubset(subset, Breakdowns[i]))
      stored == { i \in 1..Len(Breakdowns) : Stored(Breakdowns[i], cell(i)) }
      keys == { BreakdownKey(key_prefix, Breakdowns[i]) : i \in stored }
      last(k) == CHOOSE i \in stored :
                   /\ BreakdownKey(key_prefix, Breakdowns[i]) = k
                   /\ \A j \in stored :
                        BreakdownKey(key_prefix, Breakdowns[j]) = k => j <= i
  IN [k \in keys |-> cell(last(k))] @@ cs

\* the geographies build_cells aggregates, in order: << key prefix, row subset >>
Geographies(d, cs) ==
  << << "All", d >>,
     << "OECD", Where(d, LAMBDA r : r.is_oecd = "True") >>,
     << "LMIC", Where(d, LAMBDA r : r.is_lmic = "True") >> >>
  \o [i \in 1..Len(cs) |->
        << cs[i].id, Where(d, LAMBDA r : r.Country = cs[i].full_name) >>]

RECURSIVE BuildFrom(_, _, _)
BuildFrom(acc, geos, i) ==
  IF i > Len(geos) THEN acc
  ELSE BuildFrom(add_cells(acc, geos[i][1], geos[i][2]), geos, i + 1)

build_cells(d, cs) == BuildFrom(<< >>, Geographies(d, cs), 1)

(***************************************************************************)
(* build_json and json.dumps                                               *)
(***************************************************************************)
build_json(d, cs, cl) ==
  [meta |-> [total_n |-> SumK(d),
             countries |-> [i \in 1..Len(cs) |->
                              [id |-> cs[i].id, name |-> cs[i].name,
                               group |-> cs[i].group, n |-> cs[i].n]],
             age_groups |-> [i \in 1..Len(AGE_GROUPS) |-> AGE_SHORT[AGE_GROUPS[i]]],
             edu_groups |-> EDU_SHORT_ORDER],
   cells |-> cl]

\* json.dumps(output, separators=(",", ":")): the text, in pieces
json_dumps(obj) ==
  << "{\"meta\":", ToString(obj.meta), ",\"cells\":", ToString(obj.cells), "}" >>

(***************************************************************************)
(* embed_in_html                                                           *)
(***************************************************************************)
\* a text the pattern's first group matches
OPEN_TAG == "<script id=\"survey-data\" type=\"application/json\">"
\* the text the pattern's third group matches
CLOSE_TAG == "</script>"

\* variant: a pattern whose tags are optional, which matches the empty text at
\* the start of a document without marker
Search_optional(html) ==
  LET starts == { i \in 1..Len(html) :
                    /\ html[i] = OPEN_TAG
                    /\ \E j \in (i + 1)..Len(html) : html[j] = CLOSE_TAG }
  IN IF starts = {} THEN << 0, 1 >>
     ELSE LET i == CHOOSE x \in starts : \A y \in starts : x <= y
              j == CHOOSE x \in (i + 1)..Len(html) :
                     /\ html[x] = CLOSE_TAG
                     /\ \A y \in (i + 1)..(x - 1) : html[y] # CLOSE_TAG
          IN << i, j >>

\* re.search(pattern, html, re.DOTALL): the leftmost opening tag that a closing
\* tag follows, and (the middle group being lazy) the first closing tag after
\* it; << 0, 0 >> when there is no match
Search(html) ==
  LET starts == { i \in 1..Len(html) :
                    /\ html[i] = OPEN_TAG
                    /\ \E j \in (i + 1)..Len(html) : html[j] = CLOSE_TAG }
  IN IF starts = {} THEN << 0, 0 >>
     ELSE LET i == CHOOSE x \in starts : \A y \in starts : x <= y
              j == CHOOSE x \in (i + 1)..Len(html) :
                     /\ html[x] = CLOSE_TAG
                     /\ \A y \in (i + 1)..(x - 1) : html[y] # CLOSE_TAG
          IN << i, j >>

\* variant: html[: match.start()] + json_str + html[match.end() :], the tags
\* replaced with the content
new_html_whole(html, js, m) ==
  SubSeq(html, 1, m[1] - 1) \o js \o SubSeq(html, m[2] + 1, Len(html))

\* html[: match.start(2)] + json_str + html[match.end(2) :]
new_html(html, js, m) ==
  SubSeq(html, 1, m[1]) \o js \o SubSeq(html, m[2], Len(html))

(***************************************************************************)
(* Explored inputs                                                         *)
(***************************************************************************)
\* a respondent who passes both quality filters
Respondent ==
  [StartDate |-> 20260201, Attention |-> "7", Country |-> "Viet Nam",
   Age |-> "18-24 years old", Education |-> "Secondary",
   is_oecd |-> "False", is_lmic |-> "True",
   Q3_1 |-> << Q31_OPTIONS[1] >>, Q3_2 |-> << Q32_OPTIONS[1] >>,
   Q4_1 |-> << Q41_OPTIONS[2] >>,
   Q7_1 |-> << "Yes" >>, Q7_2 |-> << "Yes" >>, Q7_3 |-> << "No" >>,
   Q7_4 |-> << "Yes" >>, Q7_5 |-> << "No" >>, Q7_6 |-> << "Yes" >>,
   Q7_7 |-> << Q77_FULL_OPTIONS[1], ",", Q77_FULL_OPTIONS[3] >>,
   Q7_8 |-> << "50", "50", "0", "0", "0" >>]

\* the row of question labels that a Qualtrics export carries under the header
LabelRow ==
  [StartDate |-> BadDate, Attention |-> "Attention Check", Country |-> "Country",
   Age |-> "Age", Education |-> "Education",
   is_oecd |-> "is_oecd", is_lmic |-> "is_lmic",
   Q3_1 |-> << "Do you think climate change is happening?" >>,
   Q3_2 |-> << "label" >>, Q4_1 |-> << "label" >>,
   Q7_1 |-> << "label" >>, Q7_2 |-> << "label" >>, Q7_3 |-> << "label" >>,
   Q7_4 |-> << "label" >>, Q7_5 |-> << "label" >>, Q7_6 |-> << "label" >>,
   Q7_7 |-> << "label" >>,
   Q7_8 |-> << "label", "label", "label", "label", "label" >>]

\* the row of import ids that follows it
ImportIdRow ==
  [LabelRow EXCEPT !.Q3_1 = << "{\"", "ImportId", "\":\"QID5\"}" >>]

RowPool ==
  << LabelRow,
     ImportIdRow,
     Respondent,
     [Respondent EXCEPT !.Country = "Vietnam", !.Age = "65+ years old",
                        !.Education = "Primary", !.Q3_1 = << "Not sure" >>,
                        !.Q7_1 = << "No" >>, !.Q7_6 = << NaN >>, !.Q7_7 = << NaN >>,
                        !.Q7_8 = << NaN, NaN, NaN, NaN, NaN >>],
     [Respondent EXCEPT !.Country = "All", !.Age = "65+ years old",
                        !.Education = EDU_GROUPS[1][1],
                        !.is_oecd = "True", !.is_lmic = "False",
                        !.Q3_2 = << "Something else" >>, !.Q7_1 = << NaN >>,
                        !.Q7_7 = << Q77_FULL_OPTIONS[2] >>,
                        !.Q7_8 = << "100", "abc", NaN, "0", "0" >>],
     [Respondent EXCEPT !.Country = NaN, !.Age = NaN, !.Education = "Other",
                        !.is_oecd = "True",
                        !.Q4_1 = << NaN >>, !.Q7_6 = << "No" >>,
                        !.Q7_7 = << "None of these" >>,
                        !.Q7_8 = << "15", "150", "0", "0", "0" >>],
     [Respondent EXCEPT !.StartDate = 20260114],
     [Respondent EXCEPT !.Attention = "3", !.Age = "65+ years old"] >>

\* run lengths on both sides of the two thresholds
RunLengths == { 1, MIN_CELL_N - 1, MIN_COUNTRY_N - 1, MIN_COUNTRY_N }

Run(p, n) == [row |-> RowPool[p], k |-> n]

\* up to m runs of distinct pool rows, in pool order
Runs(m) ==
  UNION { { [i \in 1..Len(ps) |-> Run(ps[i], ks[i])] : ks \in [1..Len(ps) -> RunLengths] } :
          ps \in { q \in UNION { [1..l -> 1..Len(RowPool)] : l \in 0..m } :
                     \A i \in 1..Len(q) : i < Len(q) => q[i] < q[i + 1] } }

\* the first record of a CSV body: the label row, or a respondent
FirstRows == { 1, 3 }

\* the CSV body: nothing, or one first record followed by up to MaxGroups runs
Tables ==
  { << >> } \cup
  { << Run(p, 1) >> \o rest : p \in FirstRows, rest \in Runs(MaxGroups) }

\* the CSV bodies tried with every choice of arguments and document
ExportTables ==
  { << >> } \cup
  { << Run(1, 1), Run(p, MIN_COUNTRY_N) >> : p \in 1..Len(RowPool) }

DocPieces == { OPEN_TAG, CLOSE_TAG, "<p>text</p>" }

Docs == UNION { [1..l -> DocPieces] : l \in 0..MaxDoc }

Args == [embed : BOOLEAN, output : BOOLEAN]

(***************************************************************************)
(* main                                                                    *)
(***************************************************************************)
Init ==
  /\ pc = "load"
  /\ \/ csv \in Tables /\ args = [embed |-> FALSE, output |-> FALSE] /\ html_file = << >>
     \/ csv \in ExportTables /\ args \in Args /\ html_file \in Docs
  /\ data = << >>
  /\ countries = << >>
  /\ cells = << >>
  /\ output = None
  /\ json_str = << >>
  /\ out_file = << >>
  /\ out_written = FALSE
  /\ exit_code = 0

\* data = load_and_filter(args.csv_path)
LoadAndFilter ==
  /\ pc = "load"
  /\ IF LoadRaises(csv)
       THEN /\ pc' = "done"
            /\ exit_code' = 1
            /\ data' = data
       ELSE /\ pc' = "countries"
            /\ data' = load_and_filter(csv)
            /\ exit_code' = exit_code
  /\ UNCHANGED <<csv, args, countries, cells, output, json_str,
                 html_file, out_file, out_written>>

\* countries = get_country_info(data)
GetCountryInfo ==
  /\ pc = "countries"
  /\ \E order \in ValueCountsOrders(data) :
       countries' = get_country_info(data, order)
  /\ pc' = "cells"
  /\ UNCHANGED <<csv, args, data, cells, output, json_str,
                 html_file, out_file, out_written, exit_code>>

\* cells = build_cells(data, countries)
BuildCells ==
  /\ pc = "cells"
  /\ cells' = build_cells(data, countries)
  /\ pc' = "json"
  /\ UNCHANGED <<csv, args, data, countries, output, json_str,
                 html_file, out_file, out_written, exit_code>>

\* output = build_json(data, countries, cells); json_str = json.dumps(output)
BuildJson ==
  /\ pc = "json"
  /\ output' = build_json(data, countries, cells)
  /\ json_str' = json_dumps(output')
  /\ pc' = "output"
  /\ UNCHANGED <<csv, args, data, countries, cells,
                 html_file, out_file, out_written, exit_code>>

\* variant: the write moved after the embedding
WriteOutput_deferred ==
  /\ pc = "output"
  /\ pc' = "embed"
  /\ UNCHANGED <<csv, args, data, countries, cells, output, json_str,
                 html_file, out_file, out_written, exit_code>>

\* if args.output: write json_str to the file
WriteOutput ==
  /\ pc = "output"
  /\ IF args.output
       THEN out_file' = json_str /\ out_written' = TRUE
       ELSE UNCHANGED <<out_file, out_written>>
  /\ pc' = "embed"
  /\ UNCHANGED <<csv, args, data, countries, cells, output, json_str,
                 html_file, exit_code>>

\* if args.embed: embed_in_html(json_str, args.embed)
EmbedInHtml ==
  /\ pc = "embed"
  /\ IF args.embed
       THEN LET m == Search(html_file)
            IN IF m = << 0, 0 >>
                 THEN pc' = "done" /\ exit_code' = 1 /\ html_file' = html_file
                 ELSE /\ html_file' = new_html(html_file, json_str, m)
                      /\ pc' = "notice"
                      /\ exit_code' = exit_code
       ELSE pc' = "notice" /\ UNCHANGED <<html_file, exit_code>>
  /\ UNCHANGED <<csv, args, data, countries, cells, output, json_str,
                 out_file, out_written>>

\* the closing notice, and the return of main
Finish ==
  /\ pc = "notice"
  /\ pc' = "done"
  /\ UNCHANGED <<csv, args, data, countries, cells, output, json_str,
                 html_file, out_file, out_written, exit_code>>

Next ==
  \/ LoadAndFilter
  \/ GetCountryInfo
  \/ BuildCells
  \/ BuildJson
  \/ WriteOutput
  \/ EmbedInHtml
  \/ Finish

Spec == Init /\ [][Next]_vars

(***************************************************************************)
(* The filter stage applied to its own result                              *)
(***************************************************************************)
Refilter ==
  /\ pc = "countries"
  /\ ~LoadRaises(data)
  /\ data' = load_and_filter(data)
  /\ pc' = "refiltered"
  /\ UNCHANGED <<csv, args, countries, cells, output, json_str,
                 html_file, out_file, out_written, exit_code>>

NextFilter == LoadAndFilter \/ Refilter

SpecFilter == Init /\ [][NextFilter]_vars

(***************************************************************************)
(* Properties                                                              *)
(***************************************************************************)
\* build_cells has run in this state
Built == pc \in { "json", "output", "embed", "notice" } \/ (pc = "done" /\ output # None)

\* get_country_info has run in this state
Resolved == pc = "cells" \/ Built

\* the geographies of the run: << key prefix, row subset >>
Geos == Geographies(data, countries)

\* the overall key of every geography
TopKeys == { CellKey(Geos[g][1], "All", "All") : g \in DOMAIN Geos }

\* the number of records of the filtered table with a given property
Rows(P(_)) == SumSeq([i \in 1..Len(data) |-> IF P(data[i].row) THEN data[i].k ELSE 0])

AllCountryValues == { RowPool[p].Country : p \in 1..Len(RowPool) } \ { NaN }

\* C2: a country value is in the geography list iff at least 100 filtered rows
\* carry it, and its descriptor's n is that number of rows.
C2_CountryThreshold ==
  Resolved =>
    \A c \in AllCountryValues :
      /\ (\E i \in 1..Len(countries) : countries[i].full_name = c)
           <=> Rows(LAMBDA r : r.Country = c) >= 100
      /\ \A i \in 1..Len(countries) :
           countries[i].full_name = c => countries[i].n = Rows(LAMBDA r : r.Country = c)

\* one country with exactly 100 filtered rows, listed, and one with 99, not
\* listed
C2_Witness ==
  /\ Resolved
  /\ \E i \in 1..Len(countries) : countries[i].n = 100
  /\ \E c \in AllCountryValues :
       /\ Rows(LAMBDA r : r.Country = c) = 99
       /\ \A i \in 1..Len(countries) : countries[i].full_name # c

\* the counted questions whose denominator is the cell's n
SingleChoice == { "q71", "q31", "q32", "q41", "q72", "q73", "q74", "q75" }

\* C3 as stated: in every cell the per-option counts of every counted
\* question sum to at most the question's denominator, sum(q77) <= n_q77
\* included.
C3_Original ==
  Built =>
    \A k \in DOMAIN cells :
      /\ \A q \in SingleChoice : SumSeq(cells[k][q]) <= cells[k].n
      /\ SumSeq(cells[k].q76) <= cells[k].n_q76
      /\ SumSeq(cells[k].q77) <= cells[k].n_q77

\* C3 amended: the sums of the exclusive questions are at most n, sum(q76) is
\* n_q76; for the multi-select q77 each option's count is at most n_q77, which
\* is at most n, so the sum is at most 5 * n_q77.
C3_CountsBounded ==
  Built =>
    \A k \in DOMAIN cells :
      /\ \A q \in SingleChoice : SumSeq(cells[k][q]) <= cells[k].n
      /\ SumSeq(cells[k].q76) = cells[k].n_q76
      /\ cells[k].n_q76 <= cells[k].n
      /\ \A i \in 1..Len(cells[k].q77) : cells[k].q77[i] <= cells[k].n_q77
      /\ cells[k].n_q77 <= cells[k].n
      /\ SumSeq(cells[k].q77) <= 5 * cells[k].n_q77

\* a cell whose rows chose two q77 options each, and a cell with rows that
\* left q77 and q76 unanswered
C3_Witness ==
  /\ Built
  /\ \E k \in DOMAIN cells : SumSeq(cells[k].q77) = 2 * cells[k].n_q77 /\ cells[k].n_q77 > 0
  /\ \E k \in DOMAIN cells : cells[k].n_q77 < cells[k].n /\ cells[k].n_q76 < cells[k].n

HasMarker(h) ==
  \E i, j \in 1..Len(h) : i < j /\ h[i] = OPEN_TAG /\ h[j] = CLOSE_TAG

\* C5: embed_in_html on a document without the marker ends the run with exit
\* code 1 and leaves the document as it was.
C5_EmbedFailure ==
  [][pc = "embed" /\ args.embed /\ ~HasMarker(html_file) =>
       pc' = "done" /\ exit_code' = 1 /\ html_file' = html_file]_vars

\* a run that failed in embed_in_html on a non-empty document without marker
C5_Witness ==
  /\ pc = "done" /\ exit_code = 1 /\ output # None /\ args.embed
  /\ ~HasMarker(html_file)
  /\ \E i \in 1..Len(html_file) : html_file[i] = OPEN_TAG

\* the opening tag of the first marker of a document that holds one
MarkerOpen(h) ==
  CHOOSE i \in 1..Len(h) :
    /\ h[i] = OPEN_TAG /\ \E j \in (i + 1)..Len(h) : h[j] = CLOSE_TAG
    /\ \A x \in 1..(i - 1) : h[x] # OPEN_TAG

\* the closing tag of the first marker
MarkerClose(h) ==
  CHOOSE j \in (MarkerOpen(h) + 1)..Len(h) :
    /\ h[j] = CLOSE_TAG
    /\ \A x \in (MarkerOpen(h) + 1)..(j - 1) : h[x] # CLOSE_TAG

\* C6: embed_in_html on a document with the marker writes the document with
\* the inner content of the first marker replaced by the JSON text: all up to
\* the end of the opening tag and all from the closing tag on is unchanged.
C6_EmbedSuccess ==
  [][pc = "embed" /\ args.embed /\ HasMarker(html_file) =>
       LET i == MarkerOpen(html_file)
           j == MarkerClose(html_file)
           shift == Len(json_str) - (j - i - 1)
       IN /\ Len(html_file') = Len(html_file) + shift
          /\ \A x \in 1..i : html_file'[x] = html_file[x]
          /\ \A x \in 1..Len(json_str) : html_file'[i + x] = json_str[x]
          /\ \A x \in j..Len(html_file) : html_file'[x + shift] = html_file[x]]_vars

\* a document after a successful embedding: text, the marker around the JSON
\* text of a non-empty table
C6_Witness ==
  /\ pc = "notice" /\ args.embed
  /\ output.meta.total_n > 0
  /\ Len(html_file) = Len(json_str) + 3
  /\ html_file[1] = "<p>text</p>"
  /\ html_file[2] = OPEN_TAG
  /\ SubSeq(html_file, 3, Len(json_str) + 2) = json_str
  /\ html_file[Len(html_file)] = CLOSE_TAG

\* C7 as stated: for a non-empty filtered table meta.total_n is the number of
\* rows that pass the filter and is the n of the cell "All|All|All".
C7_Original ==
  (Built /\ output # None /\ SumK(data) > 0) =>
    /\ output.meta.total_n = Rows(LAMBDA r : TRUE)
    /\ "All|All|All" \in DOMAIN output.cells
    /\ output.cells["All|All|All"].n = output.meta.total_n

\* the rows of a subset that answered Q7.7
Answered(t) == SelectSeq(t, LAMBDA g : g.row.Q7_7 # << NaN >> /\ g.row.Q7_7 # << >>)

\* every allocation field of the rows is missing, unparsable or in 0..100
WellFormed(t) ==
  \A i \in 1..Len(t) : \A c \in 1..5 : ToNumericFill0(t[i].row.Q7_8[c]) \in 0..100

\* a cell is what the q78 claim says of a subset
Q78Of(cell, t) ==
  LET a == Answered(t)
      m == SumSeq([i \in 1..Len(a) |-> a[i].k])
  IN /\ cell.n = SumK(t)
     /\ cell.n_q78 = m
     /\ Len(cell.q78) = 5
     /\ m = 0 => \A c \in 1..5 : cell.q78[c] = 0
     /\ m > 0 =>
          \A c \in 1..5 :
            LET S == SumSeq([i \in 1..Len(a) |-> a[i].k * ToNumericFill0(a[i].row.Q7_8[c])])
            IN /\ 2 * (m * cell.q78[c] - 10 * S) <= m
               /\ 2 * (10 * S - m * cell.q78[c]) <= m
     /\ WellFormed(a) => \A c \in 1..5 : cell.q78[c] \in 0..1000

\* C8: every cell's q78 means are the means, to one decimal, of the allocation
\* fields over the rows of its subset that answered Q7.7, n_q78 is the number
\* of those rows, the means are in [0, 100] when those fields are, and they
\* are all 0 with n_q78 = 0 when no row answered.
C8_MeanAllocation ==
  Built =>
    LET geos == Geos
        keyOf == [g \in DOMAIN geos, b \in DOMAIN Breakdowns |->
                    BreakdownKey(geos[g][1], Breakdowns[b])]
    IN \A k \in DOMAIN cells :
         \E g \in DOMAIN geos, b \in DOMAIN Breakdowns :
           /\ keyOf[g, b] = k
           /\ Q78Of(cells[k], BreakdownSubset(geos[g][2], Breakdowns[b]))

\* a cell of which some rows only answered Q7.7, with a mean strictly between
\* 0 and 100, and a cell of which no row answered
C8_Witness ==
  /\ Built
  /\ \E k \in DOMAIN cells :
       /\ cells[k].n_q78 \in 1..(cells[k].n - 1)
       /\ \E c \in 1..5 : cells[k].q78[c] \in 1..999
  /\ \E k \in DOMAIN cells : cells[k].n_q78 = 0 /\ cells[k].n >= 5

\* C9 as stated: the grouping triples that build_cells enumerates have
\* pairwise distinct keys.
C9_Original ==
  Resolved =>
    Cardinality({ BreakdownKey(Geos[g][1], Breakdowns[b]) :
                    g \in DOMAIN Geos, b \in DOMAIN Breakdowns })
      = Len(Geos) * Len(Breakdowns)

\* C10: with --output and --embed the JSON file holds the full JSON text when
\* embedding is attempted and keeps it; an embedding that finds no marker then
\* ends the run with exit code 1 and the document unmodified.
C10_WriteBeforeEmbed ==
  [][pc = "embed" /\ args.embed /\ args.output =>
       /\ out_written /\ out_file = json_str /\ Len(json_str) > 0
       /\ out_written' /\ out_file' = json_str
       /\ ~HasMarker(html_file) =>
            pc' = "done" /\ exit_code' = 1 /\ html_file' = html_file]_vars

\* a run with both arguments that failed in embed_in_html: the JSON file is
\* written
C10_Witness ==
  /\ pc = "done" /\ exit_code = 1 /\ output # None
  /\ args.embed /\ args.output
  /\ out_written /\ out_file = json_str
  /\ output.meta.total_n > 0

====
